---- MODULE Spec2Model ----
(***************************************************************************)
(* Clarity AI: the frontend request controller (client/src/App.jsx) and    *)
(* the backend admission pipeline (server/server.js).                      *)
(*                                                                         *)
(* ClientSpec is the React component: the reducer state, the values the    *)
(* event handlers captured at the last render, the AbortController ref,    *)
(* the issued fetch calls, the browser's timer table and the copy-timer    *)
(* ref.  ServerSpec is the Express process: the rate-limit map, the clock, *)
(* the requests awaiting the upstream provider and the last response.      *)
(*                                                                         *)
(* Text is kept run-length encoded: a sequence of runs [ch, n] of the      *)
(* character ch repeated n times, adjacent runs having different ch.       *)
(* " " stands for white space and "a" for any other character.             *)
(***************************************************************************)
EXTENDS Integers, Sequences, FiniteSets, TLC

\* ------------------------------------------------------------------ bounds
MaxCalls == 2
MaxTimers == 2
TickMs == 1000

\* --------------------------------------------------------------- constants
CLIENT_MAX_INPUT_LENGTH == 2000
COPY_RESET_MS == 2000

VARIABLES
    input,          \* App.jsx useState('') : the textarea's text
    st,             \* App.jsx useReducer  : loading, output, error, copied, feedback
    view,           \* the loading/output/feedback the handlers closed over at the last render
    abortRef,       \* abortRef.current : 0 (null) or the index of a call's controller
    calls,          \* the fetch calls issued so far: status and POST body
    timers,         \* the browser's pending timeouts: id and time left
    copyTimerRef,   \* copyTimerRef.current : 0 (null) or a timer id
    nTimers,        \* timer ids handed out by setTimeout
    mounted,        \* FALSE once the effect cleanup has run
    lastOp,         \* observation: the operation that ran last
    sinceCopy,      \* observation: time since the last effective copy action
    resets,         \* observation: timer expiries since the last effective copy action
    burst           \* observation: copy actions made while an earlier one's timer was pending, plus one

clientVars == <<input, st, view, abortRef, calls, timers, copyTimerRef, nTimers,
                mounted, lastOp, sinceCopy, resets, burst>>

\* what the program itself keeps (everything but the observations)
clientProg == <<input, st, view, abortRef, calls, timers, copyTimerRef, nTimers, mounted>>

\* -------------------------------------------------------------------- text
Ws == " "
Chars == {Ws, "a"}

RECURSIVE TextLen(_)
TextLen(s) == IF s = <<>> THEN 0 ELSE s[1].n + TextLen(Tail(s))

RECURSIVE TrimStart(_)
TrimStart(s) ==
    IF s = <<>> THEN <<>>
    ELSE IF s[1].ch = Ws THEN TrimStart(Tail(s)) ELSE s

RECURSIVE TrimEnd(_)
TrimEnd(s) ==
    IF s = <<>> THEN <<>>
    ELSE IF s[Len(s)].ch = Ws THEN TrimEnd(SubSeq(s, 1, Len(s) - 1)) ELSE s

\* String.prototype.trim
Trim(s) == TrimEnd(TrimStart(s))

\* a JavaScript string is truthy iff it is not empty
Truthy(s) == TextLen(s) > 0

W(k) == [ch |-> Ws, n |-> k]
A(k) == [ch |-> "a", n |-> k]

\* the first n characters of s
RECURSIVE Slice(_, _)
Slice(s, n) ==
    IF s = <<>> \/ n <= 0 THEN <<>>
    ELSE IF s[1].n <= n THEN <<s[1]>> \o Slice(Tail(s), n - s[1].n)
    ELSE <<[s[1] EXCEPT !.n = n]>>

\* the textarea's maxLength={MAX_INPUT_LENGTH}: the browser keeps what fits
maxLengthMissing(t) == t

maxLength(t) == Slice(t, CLIENT_MAX_INPUT_LENGTH)

\* what the user types or pastes into the textarea
ClientTexts ==
    { <<>>, <<W(1)>>, <<W(1), A(1), W(1)>>, <<A(1), W(1), A(1)>>,
      <<W(1), A(CLIENT_MAX_INPUT_LENGTH + 1)>> }

\* ----------------------------------------------------------------- reducer
initialRequestState ==
    [loading |-> FALSE, output |-> "", error |-> "", copied |-> FALSE, feedback |-> "null"]

requestReducerKeepsFeedback(state, action) ==
    CASE action.type = "START" ->
            [state EXCEPT !.loading = TRUE, !.output = "", !.error = ""]
      [] action.type = "SUCCESS" ->
            [state EXCEPT !.loading = FALSE, !.output = action.payload]
      [] action.type = "ERROR" ->
            [state EXCEPT !.loading = FALSE, !.error = action.payload]
      [] action.type = "SET_COPIED" ->
            [state EXCEPT !.copied = action.payload]
      [] action.type = "SET_FEEDBACK" ->
            [state EXCEPT !.feedback = action.payload]
      [] OTHER -> state

requestReducerStuck(state, action) ==
    CASE action.type = "START" ->
            [state EXCEPT !.loading = TRUE, !.output = "", !.error = "",
                          !.feedback = "null", !.copied = FALSE]
      [] action.type = "SUCCESS" ->
            [state EXCEPT !.loading = FALSE, !.output = action.payload]
      [] action.type = "ERROR" ->
            [state EXCEPT !.error = action.payload]
      [] action.type = "SET_COPIED" ->
            [state EXCEPT !.copied = action.payload]
      [] action.type = "SET_FEEDBACK" ->
            [state EXCEPT !.feedback = action.payload]
      [] OTHER -> state

requestReducerKeepsError(state, action) ==
    CASE action.type = "START" ->
            [state EXCEPT !.loading = TRUE, !.output = "",
                          !.feedback = "null", !.copied = FALSE]
      [] action.type = "SUCCESS" ->
            [state EXCEPT !.loading = FALSE, !.output = action.payload]
      [] action.type = "ERROR" ->
            [state EXCEPT !.loading = FALSE, !.error = action.payload]
      [] action.type = "SET_COPIED" ->
            [state EXCEPT !.copied = action.payload]
      [] action.type = "SET_FEEDBACK" ->
            [state EXCEPT !.feedback = action.payload]
      [] OTHER -> state

requestReducer(state, action) ==
    CASE action.type = "START" ->
            [state EXCEPT !.loading = TRUE, !.output = "", !.error = "",
                          !.feedback = "null", !.copied = FALSE]
      [] action.type = "SUCCESS" ->
            [state EXCEPT !.loading = FALSE, !.output = action.payload]
      [] action.type = "ERROR" ->
            [state EXCEPT !.loading = FALSE, !.error = action.payload]
      [] action.type = "SET_COPIED" ->
            [state EXCEPT !.copied = action.payload]
      [] action.type = "SET_FEEDBACK" ->
            [state EXCEPT !.feedback = action.payload]
      [] OTHER -> state

\* the values a render hands to the handlers it creates
Rendered(state) ==
    [loading |-> state.loading, output |-> state.output, feedback |-> state.feedback]

Op(name, c) == [op |-> name, call |-> c, flip |-> 1 - lastOp.flip]

\* ------------------------------------------------------------ fetch results
BUSY_MSG == "System busy. Please try again in a moment."
FALLBACK_MSG == "Unable to process request."

\* how a call that was not aborted can end
NetOutcomes ==
    { [fail |-> "network", ok |-> FALSE, status |-> 0, error |-> "", clarification |-> ""],
      [fail |-> "json", ok |-> TRUE, status |-> 200, error |-> "", clarification |-> ""],
      [fail |-> "none", ok |-> TRUE, status |-> 200, error |-> "", clarification |-> ""],
      [fail |-> "none", ok |-> TRUE, status |-> 200, error |-> "",
       clarification |-> "One clear sentence."],
      [fail |-> "none", ok |-> FALSE, status |-> 429,
       error |-> "Too many requests. Please wait a moment and try again.", clarification |-> ""],
      [fail |-> "none", ok |-> FALSE, status |-> 400,
       error |-> "Text input is required", clarification |-> ""],
      [fail |-> "none", ok |-> FALSE, status |-> 500, error |-> "", clarification |-> ""] }

\* the action the try/catch of handleClarify dispatches for a result
ResultAction(o) ==
    IF o.fail = "network" THEN [type |-> "ERROR", payload |-> "Failed to fetch"]
    ELSE IF o.fail = "json" THEN [type |-> "ERROR", payload |-> "Unexpected end of JSON input"]
    ELSE IF ~o.ok THEN
        IF o.status = 429 THEN [type |-> "ERROR", payload |-> BUSY_MSG]
        ELSE [type |-> "ERROR", payload |-> IF o.error # "" THEN o.error ELSE FALLBACK_MSG]
    ELSE [type |-> "SUCCESS", payload |-> o.clarification]

\* AbortController.abort() on the call a ref names
Abort(cs, c) ==
    IF c # 0 /\ cs[c].status = "inflight" THEN [cs EXCEPT ![c].status = "aborted"] ELSE cs

\* clearTimeout(id)
ClearTimeout(ts, id) == { t \in ts : t.id # id }

\* ------------------------------------------------------------------- Init
ClientInit ==
    /\ input = <<>>
    /\ st = initialRequestState
    /\ view = Rendered(initialRequestState)
    /\ abortRef = 0
    /\ calls = <<>>
    /\ timers = {}
    /\ copyTimerRef = 0
    /\ nTimers = 0
    /\ mounted = TRUE
    /\ lastOp = [op |-> "init", call |-> 0, flip |-> 0]
    /\ sinceCopy = 0
    /\ resets = 0
    /\ burst = 0

\* ---------------------------------------------------------------- actions
\* the textarea's onChange: setInput(e.target.value)
handleInputChange ==
    /\ mounted
    /\ \E t \in ClientTexts :
        /\ maxLength(t) # input
        /\ input' = maxLength(t)
    /\ view' = Rendered(st)
    /\ lastOp' = Op("input", 0)
    /\ UNCHANGED <<st, abortRef, calls, timers, copyTimerRef, nTimers, mounted,
                   sinceCopy, resets, burst>>

\* "if (loading) return": loading is the value of the last render
loadingGuardMissing == FALSE

loadingGuard == view.loading

\* "const trimmed = input.trim()"
trimmedNotTrimmed == input

trimmed == Trim(input)

\* handleClarify returning early: a request is loading, or the text trims to nothing
handleClarifyIgnored ==
    /\ mounted
    /\ loadingGuard \/ ~Truthy(trimmed)
    /\ lastOp' = Op("submit-ignored", 0)
    /\ UNCHANGED clientProg
    /\ UNCHANGED <<sinceCopy, resets, burst>>

\* handleClarify up to its first await: abort, new controller, START, fetch
handleClarifyNoCancel ==
    /\ mounted
    /\ Truthy(trimmed)
    /\ Len(calls) < MaxCalls
    /\ calls' = Append(calls, [status |-> "inflight", body |-> trimmed])
    /\ abortRef' = Len(calls) + 1
    /\ st' = requestReducer(st, [type |-> "START"])
    /\ view' = Rendered(st')
    /\ lastOp' = Op("submit", Len(calls) + 1)
    /\ UNCHANGED <<input, timers, copyTimerRef, nTimers, mounted, sinceCopy, resets, burst>>

handleClarify ==
    /\ mounted
    /\ ~loadingGuard
    /\ Truthy(trimmed)
    /\ Len(calls) < MaxCalls
    /\ calls' = Append(Abort(calls, abortRef), [status |-> "inflight", body |-> trimmed])
    /\ abortRef' = Len(calls) + 1
    /\ st' = requestReducer(st, [type |-> "START"])
    /\ view' = Rendered(st')
    /\ lastOp' = Op("submit", Len(calls) + 1)
    /\ UNCHANGED <<input, timers, copyTimerRef, nTimers, mounted, sinceCopy, resets, burst>>

\* "if (err.name === 'AbortError') return"
SwallowsAbort == TRUE

\* the rest of handleClarify for a call that was not aborted
Resolve(c) ==
    /\ calls[c].status = "inflight"
    /\ \E o \in NetOutcomes :
        /\ st' = requestReducer(st, ResultAction(o))
        /\ lastOp' = [Op("resolve", c) EXCEPT !.op = ResultAction(o).type]
    /\ calls' = [calls EXCEPT ![c].status = "settled"]
    /\ UNCHANGED <<input, view, abortRef, timers, copyTimerRef, nTimers, mounted,
                   sinceCopy, resets, burst>>

\* the rest of handleClarify for an aborted call: fetch rejects with AbortError
ResolveAborted(c) ==
    /\ calls[c].status = "aborted"
    /\ calls' = [calls EXCEPT ![c].status = "settled"]
    /\ IF SwallowsAbort
       THEN /\ st' = st
            /\ lastOp' = Op("abort-error", c)
       ELSE /\ st' = requestReducer(st, [type |-> "ERROR", payload |-> "The user aborted a request."])
            /\ lastOp' = Op("ERROR", c)
    /\ UNCHANGED <<input, view, abortRef, timers, copyTimerRef, nTimers, mounted,
                   sinceCopy, resets, burst>>

\* React re-renders after a dispatch made outside an event handler
Render ==
    /\ mounted
    /\ view # Rendered(st)
    /\ view' = Rendered(st)
    /\ lastOp' = Op("render", 0)
    /\ UNCHANGED <<input, st, abortRef, calls, timers, copyTimerRef, nTimers, mounted,
                   sinceCopy, resets, burst>>

\* the copy button (rendered only while output is shown)
handleCopyStacking ==
    /\ mounted
    /\ view.output # ""
    /\ nTimers < MaxTimers
    /\ st' = requestReducer(st, [type |-> "SET_COPIED", payload |-> TRUE])
    /\ timers' = timers \cup {[id |-> nTimers + 1, left |-> COPY_RESET_MS]}
    /\ copyTimerRef' = nTimers + 1
    /\ nTimers' = nTimers + 1
    /\ view' = Rendered(st')
    /\ lastOp' = Op("copy", 0)
    /\ sinceCopy' = 0
    /\ resets' = 0
    /\ burst' = IF timers = {} THEN 1 ELSE burst + 1
    /\ UNCHANGED <<input, abortRef, calls, mounted>>

handleCopy ==
    /\ mounted
    /\ view.output # ""
    /\ nTimers < MaxTimers
    /\ st' = requestReducer(st, [type |-> "SET_COPIED", payload |-> TRUE])
    /\ timers' = ClearTimeout(timers, copyTimerRef)
                    \cup {[id |-> nTimers + 1, left |-> COPY_RESET_MS]}
    /\ copyTimerRef' = nTimers + 1
    /\ nTimers' = nTimers + 1
    /\ view' = Rendered(st')
    /\ lastOp' = Op("copy", 0)
    /\ sinceCopy' = 0
    /\ resets' = 0
    /\ burst' = IF timers = {} THEN 1 ELSE burst + 1
    /\ UNCHANGED <<input, abortRef, calls, mounted>>

\* the timeout callback: dispatch SET_COPIED false
TimerFire(id) ==
    /\ \E t \in timers : t.id = id /\ t.left = 0
    /\ timers' = ClearTimeout(timers, id)
    /\ st' = requestReducer(st, [type |-> "SET_COPIED", payload |-> FALSE])
    /\ lastOp' = Op("timer", 0)
    /\ resets' = resets + 1
    /\ UNCHANGED <<input, view, abortRef, calls, copyTimerRef, nTimers, mounted, sinceCopy,
                   burst>>

Min(a, b) == IF a < b THEN a ELSE b
Max(a, b) == IF a > b THEN a ELSE b

\* time passes
ClientTick ==
    /\ \E t \in timers : t.left > 0
    /\ timers' = { [t EXCEPT !.left = Max(0, @ - TickMs)] : t \in timers }
    /\ sinceCopy' = Min(COPY_RESET_MS, sinceCopy + TickMs)
    /\ lastOp' = Op("tick", 0)
    /\ UNCHANGED <<input, st, view, abortRef, calls, copyTimerRef, nTimers, mounted, resets,
                   burst>>

\* the thumbs buttons (rendered only while output is shown)
handleFeedbackNoToggle(v) ==
    /\ mounted
    /\ view.output # ""
    /\ st' = requestReducer(st, [type |-> "SET_FEEDBACK", payload |-> v])
    /\ view' = Rendered(st')
    /\ lastOp' = Op(v, 0)
    /\ UNCHANGED <<input, abortRef, calls, timers, copyTimerRef, nTimers, mounted,
                   sinceCopy, resets, burst>>

handleFeedback(v) ==
    /\ mounted
    /\ view.output # ""
    /\ st' = requestReducer(st, [type |-> "SET_FEEDBACK",
                                 payload |-> IF view.feedback = v THEN "null" ELSE v])
    /\ view' = Rendered(st')
    /\ lastOp' = Op(v, 0)
    /\ UNCHANGED <<input, abortRef, calls, timers, copyTimerRef, nTimers, mounted,
                   sinceCopy, resets, burst>>

handleThumbsUp == handleFeedback("up")

handleThumbsDown == handleFeedback("down")

\* the effect cleanup on unmount
UnmountNoCleanup ==
    /\ mounted
    /\ mounted' = FALSE
    /\ lastOp' = Op("unmount", 0)
    /\ UNCHANGED <<input, st, view, abortRef, calls, timers, copyTimerRef, nTimers,
                   sinceCopy, resets, burst>>

Unmount ==
    /\ mounted
    /\ mounted' = FALSE
    /\ timers' = ClearTimeout(timers, copyTimerRef)
    /\ calls' = Abort(calls, abortRef)
    /\ lastOp' = Op("unmount", 0)
    /\ UNCHANGED <<input, st, view, abortRef, copyTimerRef, nTimers, sinceCopy, resets, burst>>

ClientNext ==
    \/ handleInputChange
    \/ handleClarifyIgnored
    \/ handleClarify
    \/ \E c \in 1..Len(calls) : Resolve(c)
    \/ \E c \in 1..Len(calls) : ResolveAborted(c)
    \/ Render
    \/ handleCopy
    \/ \E id \in 1..nTimers : TimerFire(id)
    \/ ClientTick
    \/ handleThumbsUp
    \/ handleThumbsDown
    \/ Unmount


\* ======================================================= server/server.js
MaxNow == 360000
MaxOffset == 60000
ServerTickMs == 30000
MaxCount == 11
MaxOther == 2
MaxPending == 1

MAX_INPUT_LENGTH == 5000
RATE_WINDOW_MS == 60000
RATE_MAX_REQS == 10
SWEEP_MS == 300000

Ips == {"ip1", "ip2"}

\* how many requests a client makes in one window: ip1 is the heavy client
Budget(ip) == IF ip = "ip1" THEN MaxCount ELSE MaxOther
NoEntry == [count |-> 0, resetAt |-> 0]

VARIABLES
    now,            \* Date.now()
    rateLimitMap,   \* ip -> { count, resetAt }, NoEntry where the Map has no key
    nextSweep,      \* when the setInterval callback is next due
    awaiting,       \* requests suspended at "await groq.chat.completions.create"
    lastResp,       \* observation: the request handled last and its response
    win             \* observation: per ip, the window's end and the requests seen/admitted in it

serverVars == <<now, rateLimitMap, nextSweep, awaiting, lastResp, win>>

vars == <<clientVars, serverVars>>

\* String(n) for a non-negative integer, as decimal digits
RECURSIVE DecStr(_)
DecStr(n) == IF n < 10 THEN <<n>> ELSE Append(DecStr(n \div 10), n % 10)

\* isRateLimited(ip) at time t on map m: the verdict and the map it leaves
isRateLimitedSkipsCount(m, ip, t) ==
    LET entry == m[ip] IN
    IF entry = NoEntry \/ t >= entry.resetAt
    THEN [limited |-> FALSE,
          map |-> [m EXCEPT ![ip] = [count |-> 1, resetAt |-> t + RATE_WINDOW_MS]]]
    ELSE IF entry.count >= RATE_MAX_REQS
    THEN [limited |-> TRUE, map |-> m]
    ELSE [limited |-> FALSE, map |-> [m EXCEPT ![ip].count = entry.count + 1]]

isRateLimitedLoose(m, ip, t) ==
    LET entry == m[ip] IN
    IF entry = NoEntry \/ t >= entry.resetAt
    THEN [limited |-> FALSE,
          map |-> [m EXCEPT ![ip] = [count |-> 1, resetAt |-> t + RATE_WINDOW_MS]]]
    ELSE [limited |-> entry.count + 1 > RATE_MAX_REQS + 1,
          map |-> [m EXCEPT ![ip].count = entry.count + 1]]

isRateLimited(m, ip, t) ==
    LET entry == m[ip] IN
    IF entry = NoEntry \/ t >= entry.resetAt
    THEN [limited |-> FALSE,
          map |-> [m EXCEPT ![ip] = [count |-> 1, resetAt |-> t + RATE_WINDOW_MS]]]
    ELSE [limited |-> entry.count + 1 > RATE_MAX_REQS,
          map |-> [m EXCEPT ![ip].count = entry.count + 1]]

\* the values req.body.text takes
Undefined == [type |-> "undefined", str |-> <<>>]
Number42 == [type |-> "number", str |-> <<>>]
Str(s) == [type |-> "string", str |-> s]

BodyTexts ==
    { Undefined, Number42, Str(<<>>), Str(<<W(3)>>), Str(<<W(1), A(1), W(1)>>),
      Str(<<W(1), A(MAX_INPUT_LENGTH), W(1)>>), Str(<<A(MAX_INPUT_LENGTH - 1), W(1), A(1)>>) }

\* headers set by the middleware that runs before every route
HardeningHeadersNoHsts ==
    { "X-Content-Type-Options: nosniff", "X-Frame-Options: DENY",
      "Referrer-Policy: strict-origin-when-cross-origin" }

HardeningHeaders ==
    { "X-Content-Type-Options: nosniff", "X-Frame-Options: DENY",
      "Referrer-Policy: strict-origin-when-cross-origin",
      "Strict-Transport-Security: max-age=31536000; includeSubDomains" }
NoStore == "Cache-Control: no-store"

REQUIRED_MSG == "Text input is required"
EMPTY_MSG == "Text input must not be empty"
TOO_LONG_MSG == "Input exceeds maximum allowed length of 5000 characters"
TOO_MANY_MSG == "Too many requests. Please wait a moment and try again."
SERVER_BUSY_MSG == "System busy. Please try again in a moment."
FAILED_MSG == "Failed to clarify text"

\* "!text || typeof text !== 'string'"
TextMissing(text) == text.type # "string" \/ ~Truthy(text.str)

\* the validation of lines 164-181: the error message, or "" when the text is accepted
ValidateOffByOne(text) ==
    IF TextMissing(text) THEN REQUIRED_MSG
    ELSE IF ~Truthy(Trim(text.str)) THEN EMPTY_MSG
    ELSE IF TextLen(Trim(text.str)) >= MAX_INPUT_LENGTH THEN TOO_LONG_MSG
    ELSE ""

Validate(text) ==
    IF TextMissing(text) THEN REQUIRED_MSG
    ELSE IF ~Truthy(Trim(text.str)) THEN EMPTY_MSG
    ELSE IF TextLen(Trim(text.str)) > MAX_INPUT_LENGTH THEN TOO_LONG_MSG
    ELSE ""

\* what is recorded of a request: the text the handler read from the body (Undefined when
\* it returned before reading it), how it ended (cause), the response's status, body and
\* headers, and for a failed upstream call the error that was thrown
Response(cause, status, error, clarification, retryAfter, headers, text, thrown) ==
    [cause |-> cause, status |-> status, error |-> error, clarification |-> clarification,
     retryAfter |-> retryAfter, headers |-> headers, text |-> text, thrown |-> thrown]

NoError == [status |-> 0, message |-> ""]

\* how the upstream call ends: a completion, or a thrown error with a status and a message
UpstreamOutcomes ==
    { [ok |-> TRUE, content |-> <<W(2), A(17), W(2)>>, status |-> 0, message |-> ""] }
    \cup { [ok |-> FALSE, content |-> <<>>, status |-> s, message |-> m] :
             s \in {429, 0}, m \in {"Rate limit reached for gsk_key", "connect ECONNREFUSED 10.0.0.7"} }

\* the catch block of lines 208-225: status and body
UpstreamErrorAsLimiter(o) ==
    IF o.status = 429 THEN [status |-> 429, error |-> TOO_MANY_MSG]
    ELSE [status |-> 500, error |-> FAILED_MSG]

UpstreamErrorLeaky(o) ==
    IF o.status = 429 THEN [status |-> 429, error |-> SERVER_BUSY_MSG]
    ELSE [status |-> 500, error |-> o.message]

UpstreamError(o) ==
    IF o.status = 429 THEN [status |-> 429, error |-> SERVER_BUSY_MSG]
    ELSE [status |-> 500, error |-> FAILED_MSG]

ServerInit ==
    /\ now = 0
    /\ rateLimitMap = [ip \in Ips |-> NoEntry]
    /\ nextSweep = SWEEP_MS
    /\ awaiting = 0
    /\ lastResp = Response("none", 0, "", <<>>, <<>>, {}, Undefined, NoError)
    /\ win = [ip \in Ips |-> [end |-> 0, seen |-> 0, passed |-> 0]]

\* the window bookkeeping of an observer who sees every request and its verdict
Observe(w, t, limited) ==
    LET fresh == t >= w.end IN
    [end |-> IF fresh THEN t + RATE_WINDOW_MS ELSE w.end,
     seen |-> IF fresh THEN 1 ELSE w.seen + 1,
     passed |-> (IF fresh THEN 0 ELSE w.passed) + (IF limited THEN 0 ELSE 1)]

\* the Retry-After value: String(RATE_WINDOW_MS / 1000)
RetryAfterMs == DecStr(RATE_WINDOW_MS)

RetryAfter == DecStr(RATE_WINDOW_MS \div 1000)

\* app.post('/api/clarify') up to its response or to the await of the upstream call
PostClarify(ip, text) ==
    LET r == isRateLimited(rateLimitMap, ip, now)
        w == Observe(win[ip], now, r.limited)
        msg == Validate(text)
    IN
    /\ rateLimitMap[ip] = NoEntry \/ now >= rateLimitMap[ip].resetAt
          \/ rateLimitMap[ip].count < Budget(ip)
    /\ rateLimitMap' = r.map
    /\ win' = [win EXCEPT ![ip] = w]
    /\ IF r.limited THEN
          /\ lastResp' = Response("limited", 429, TOO_MANY_MSG, <<>>,
                                  RetryAfter, HardeningHeaders,
                                  Undefined, NoError)
          /\ awaiting' = awaiting
       ELSE IF msg # "" THEN
          /\ lastResp' = Response("invalid", 400, msg, <<>>, <<>>,
                                  HardeningHeaders \cup {NoStore}, text, NoError)
          /\ awaiting' = awaiting
       ELSE
          /\ awaiting < MaxPending
          /\ lastResp' = Response("forwarded", 0, "", <<>>, <<>>, {}, text, NoError)
          /\ awaiting' = awaiting + 1
    /\ UNCHANGED <<now, nextSweep>>

\* the upstream call of a suspended request ends and the handler responds
UpstreamReply(o) ==
    /\ awaiting > 0
    /\ awaiting' = awaiting - 1
    /\ lastResp' =
         IF o.ok
         THEN Response("ok", 200, "", Trim(o.content), <<>>, HardeningHeaders \cup {NoStore},
                       Undefined, NoError)
         ELSE Response("upstream-failed", UpstreamError(o).status, UpstreamError(o).error, <<>>,
                       <<>>, HardeningHeaders \cup {NoStore}, Undefined,
                       [status |-> o.status, message |-> o.message])
    /\ UNCHANGED <<now, rateLimitMap, nextSweep, win>>

\* app.get('/')
GetRoot ==
    /\ lastResp' = Response("root", 200, "", <<>>, <<>>, HardeningHeaders, Undefined, NoError)
    /\ UNCHANGED <<now, rateLimitMap, nextSweep, awaiting, win>>

\* the 404 handler
NotFound ==
    /\ lastResp' = Response("notfound", 404, "Not found", <<>>, <<>>, HardeningHeaders,
                            Undefined, NoError)
    /\ UNCHANGED <<now, rateLimitMap, nextSweep, awaiting, win>>

\* cors() answers an OPTIONS pre-flight itself, before the later middleware runs
Preflight ==
    /\ lastResp' = Response("preflight", 204, "", <<>>, <<>>, {}, Undefined, NoError)
    /\ UNCHANGED <<now, rateLimitMap, nextSweep, awaiting, win>>

\* express.json() rejects the body (malformed JSON: 400, over 16 kB: 413); the error
\* skips the header middleware and the routes, and Express's final handler answers
\* it, setting nosniff of its own
BodyParseError ==
    /\ \E code \in {400, 413} :
          lastResp' = Response("bad-body", code, "", <<>>, <<>>,
                               {"X-Content-Type-Options: nosniff"}, Undefined, NoError)
    /\ UNCHANGED <<now, rateLimitMap, nextSweep, awaiting, win>>

\* the setInterval callback: delete the entries whose window has expired
SweepAll ==
    /\ now >= nextSweep
    /\ rateLimitMap' = [ip \in Ips |-> NoEntry]
    /\ nextSweep' = nextSweep + SWEEP_MS
    /\ UNCHANGED <<now, awaiting, lastResp, win>>

Sweep ==
    /\ now >= nextSweep
    /\ rateLimitMap' = [ip \in Ips |->
          IF rateLimitMap[ip] # NoEntry /\ now >= rateLimitMap[ip].resetAt
          THEN NoEntry ELSE rateLimitMap[ip]]
    /\ nextSweep' = nextSweep + SWEEP_MS
    /\ UNCHANGED <<now, awaiting, lastResp, win>>

\* time passes
ServerTick ==
    /\ now + ServerTickMs <= MaxNow
    /\ (now % SWEEP_MS) + ServerTickMs <= MaxOffset
    /\ now' = now + ServerTickMs
    /\ UNCHANGED <<rateLimitMap, nextSweep, awaiting, lastResp, win>>

\* a quiet period: time passes until the sweep is next due
ServerIdle ==
    /\ now < nextSweep
    /\ nextSweep <= MaxNow
    /\ now' = nextSweep
    /\ UNCHANGED <<rateLimitMap, nextSweep, awaiting, lastResp, win>>

ServerNext ==
    \/ \E ip \in Ips, text \in BodyTexts : PostClarify(ip, text)
    \/ \E o \in UpstreamOutcomes : UpstreamReply(o)
    \/ GetRoot
    \/ NotFound
    \/ Preflight
    \/ BodyParseError
    \/ Sweep
    \/ ServerTick
    \/ ServerIdle

Init == ClientInit /\ ServerInit

ServerSpec == Init /\ [][ServerNext /\ UNCHANGED clientVars]_vars

ClientSpec == Init /\ [][ClientNext /\ UNCHANGED serverVars]_vars

\* the client when every fetch that is issued and not aborted settles in the end
ClientLiveSpec ==
    /\ Init
    /\ [][ClientNext /\ UNCHANGED serverVars]_vars
    /\ WF_vars((\E c \in 1..Len(calls) : Resolve(c)) /\ UNCHANGED serverVars)

\* ===================================================== client properties
DispatchedResult == {"SUCCESS", "ERROR"}
SubmitOps == {"submit", "submit-ignored"}
Inflight == { c \in 1..Len(calls) : calls[c].status = "inflight" }

\* C1: latest-wins. Every SUCCESS or ERROR is dispatched by the call issued
\* last (the one abortRef names), and a step in which an earlier call ends
\* leaves every field of the request state as it was.
C1_LatestWins ==
    [][ /\ lastOp'.op \in DispatchedResult
            => lastOp'.call = Len(calls') /\ lastOp'.call = abortRef'
        /\ (lastOp' # lastOp /\ lastOp'.call # 0 /\ lastOp'.call < Len(calls'))
            => st' = st ]_vars

\* two calls were issued, the first ended before the second, and the state
\* shown is the second call's result
C1_Witness ==
    /\ Len(calls) = 2
    /\ calls[1].status = "settled"
    /\ lastOp.op = "SUCCESS" /\ lastOp.call = 2
    /\ st.output = "One clear sentence." /\ ~st.loading

\* C3: at most one call is outstanding (issued, not cancelled, not ended).
C3_OneOutstanding == Cardinality(Inflight) <= 1

C3_Witness ==
    /\ Len(calls) = 2
    /\ lastOp.op = "submit"
    /\ Inflight = {2}

\* C6: a submit whose text trims to nothing changes nothing the program
\* keeps: no dispatch, no abort, no call.
C6_EmptySubmitNoOp ==
    [][ (lastOp'.op \in SubmitOps /\ TextLen(Trim(input)) = 0)
            => UNCHANGED clientProg ]_vars

\* a white-space-only text was submitted while a result was on display
C6_Witness ==
    /\ lastOp.op = "submit-ignored"
    /\ TextLen(input) > 0 /\ TextLen(Trim(input)) = 0
    /\ ~st.loading /\ st.output # ""

C8_AcceptedSubmit ==
    [][ lastOp'.op = "submit" =>
          /\ st' = [loading |-> TRUE, output |-> "", error |-> "",
                    copied |-> FALSE, feedback |-> "null"]
          /\ Len(calls') = Len(calls) + 1
          /\ calls'[Len(calls')] = [status |-> "inflight", body |-> Trim(input)]
          /\ \A c \in 1..Len(calls) : calls'[c].body = calls[c].body ]_vars

\* a submit accepted right after a copy, with text that has white space to trim
C8_Witness ==
    /\ lastOp.op = "submit"
    /\ Len(calls) = 2
    /\ timers # {}
    /\ Trim(input) # input
    /\ calls[2].body = Trim(input)

\* C9: once the component is torn down the request state never changes and
\* nothing is dispatched.
C9_NoDispatchAfterTeardown ==
    [][ ~mounted =>
          /\ st' = st
          /\ lastOp' # lastOp => lastOp'.op \in {"abort-error", "tick"} ]_vars

\* torn down with a call pending and the copy timer running; the call then ended
C9_Witness ==
    /\ ~mounted
    /\ lastOp.op = "abort-error"
    /\ st.loading
    /\ nTimers > 0 /\ timers = {}

\* C10: at most one copy-reset timer is pending; while the component lives
\* copied is true only with a timer pending; a timer resets the flag at most
\* once after a burst of copies and not before a full delay after the last.
C10_CopyTimer ==
    [][ /\ Cardinality(timers') <= 1
        /\ (mounted' /\ st'.copied) => timers' # {}
        /\ resets' <= 1
        /\ lastOp'.op = "copy" => st'.copied /\ timers' = {[id |-> copyTimerRef', left |-> COPY_RESET_MS]}
        /\ lastOp'.op = "timer" => sinceCopy >= COPY_RESET_MS /\ ~st'.copied ]_vars

\* two copies in one burst, then a single reset
C10_Witness ==
    /\ burst >= 2
    /\ resets = 1
    /\ lastOp.op = "timer"
    /\ ~st.copied /\ timers = {}

\* C11: a thumbs selection sets feedback to the selected value unless that
\* value is the active one, in which case it clears it; so Up, Up ends at
\* none and Up, Down ends at Down.  Nothing else of the state changes.
C11_FeedbackToggle ==
    [][ lastOp'.op \in {"up", "down"} =>
          st' = [st EXCEPT !.feedback = IF st.feedback = lastOp'.op THEN "null"
                                        ELSE lastOp'.op] ]_vars

\* the active value was selected again and feedback is none
C11_Witness ==
    /\ lastOp.op = "up"
    /\ st.feedback = "null"
    /\ st.output # ""

\* C12: feedback is Up or Down only in a Succeeded state: not loading,
\* output shown, no error.
C12_FeedbackOnlySucceeded ==
    st.feedback # "null" => ~st.loading /\ st.output # "" /\ st.error = ""

\* feedback given on the result of a second request
C12_Witness ==
    /\ st.feedback = "down"
    /\ Len(calls) = 2
    /\ st.output # ""

\* C17: no issued call carries more than CLIENT_MAX_INPUT_LENGTH characters.
C17_BodyWithinMax ==
    \A c \in 1..Len(calls) : TextLen(calls[c].body) <= CLIENT_MAX_INPUT_LENGTH

\* the textarea is full and its trimmed text was sent
C17_Witness ==
    /\ TextLen(input) = CLIENT_MAX_INPUT_LENGTH
    /\ Len(calls) > 0
    /\ calls[Len(calls)].body = Trim(input)
    /\ TextLen(calls[Len(calls)].body) = CLIENT_MAX_INPUT_LENGTH - 1

\* C19: while the component stays mounted and every call settles, a pending
\* request state always reaches loading = false by a SUCCESS or ERROR that
\* the latest call dispatched.
C19_NeverPendingForever ==
    [](st.loading =>
         <>(\/ ~mounted
            \/ /\ ~st.loading
               /\ lastOp.op \in DispatchedResult
               /\ lastOp.call = Len(calls)))

\* the second of two submits has just been answered with an error
C19_Witness ==
    /\ mounted
    /\ Len(calls) = 2
    /\ lastOp.op = "ERROR" /\ lastOp.call = 2
    /\ ~st.loading /\ st.error # ""

\* C20: output and error are never both shown, and neither is shown while a
\* request is loading.
C20_OutputXorError ==
    /\ ~(st.output # "" /\ st.error # "")
    /\ st.loading => st.output = "" /\ st.error = ""

\* a request failed after an earlier one had succeeded
C20_Witness ==
    /\ lastOp.op = "ERROR" /\ lastOp.call = 2
    /\ st.error # "" /\ st.output = ""
    /\ ~st.loading

\* ===================================================== server properties
\* a step that handled a POST /api/clarify request
PostStep == win' # win

\* C2: in every rate window at most RATE_MAX_REQS requests of a client pass
\* the rate check, whatever else is in progress; every later request of the
\* window is answered 429 with Retry-After "60" and starts no upstream call.
C2_RateLimit ==
    [][ \A ip \in Ips :
          /\ win'[ip].passed <= RATE_MAX_REQS
          /\ (win'[ip] # win[ip] /\ win'[ip].seen > RATE_MAX_REQS) =>
                /\ lastResp'.status = 429
                /\ lastResp'.retryAfter = <<6, 0>>
                /\ awaiting' = awaiting ]_vars

\* the heavy client's 11th request of a window was refused while an admitted
\* request was still awaiting the upstream call and the other client was active
C2_Witness ==
    /\ win["ip1"].seen = RATE_MAX_REQS + 1
    /\ win["ip1"].passed = RATE_MAX_REQS
    /\ now < win["ip1"].end
    /\ lastResp.status = 429 /\ lastResp.retryAfter = <<6, 0>>
    /\ awaiting = 1
    /\ rateLimitMap["ip2"].count > 0

TrimmedLen(t) == TextLen(Trim(t.str))

\* C4 as stated: every text that trims to empty, the empty string included,
\* is refused with the 'must not be empty' message.
C4_Original ==
    [][ (PostStep /\ lastResp'.status # 429) =>
          LET t == lastResp'.text IN
          /\ t.type # "string" => lastResp'.status = 400 /\ lastResp'.error = REQUIRED_MSG
          /\ (t.type = "string" /\ TrimmedLen(t) = 0) =>
                lastResp'.status = 400 /\ lastResp'.error = EMPTY_MSG
          /\ (t.type = "string" /\ TrimmedLen(t) > MAX_INPUT_LENGTH) =>
                lastResp'.status = 400 /\ lastResp'.error = TOO_LONG_MSG
          /\ (t.type = "string" /\ TrimmedLen(t) = MAX_INPUT_LENGTH) =>
                lastResp'.status # 400 /\ awaiting' = awaiting + 1
          /\ lastResp'.status = 400 => awaiting' = awaiting ]_vars

\* C4: for a request that passed the rate check, a missing, non-string or
\* empty-string text yields 400 'required'; a non-empty text that trims to
\* empty yields 400 'must not be empty'; a trimmed length above the maximum
\* yields 400 with the length message; a trimmed length of exactly the
\* maximum is accepted; no 400 starts an upstream call.
C4_Validation ==
    [][ (PostStep /\ lastResp'.status # 429) =>
          LET t == lastResp'.text IN
          /\ (t.type # "string" \/ TextLen(t.str) = 0) =>
                lastResp'.status = 400 /\ lastResp'.error = REQUIRED_MSG
          /\ (t.type = "string" /\ TextLen(t.str) > 0 /\ TrimmedLen(t) = 0) =>
                lastResp'.status = 400 /\ lastResp'.error = EMPTY_MSG
          /\ (t.type = "string" /\ TrimmedLen(t) > MAX_INPUT_LENGTH) =>
                lastResp'.status = 400 /\ lastResp'.error = TOO_LONG_MSG
          /\ (t.type = "string" /\ TrimmedLen(t) = MAX_INPUT_LENGTH) =>
                lastResp'.status # 400 /\ awaiting' = awaiting + 1
          /\ lastResp'.status = 400 => awaiting' = awaiting ]_vars

\* a text longer than the maximum whose trimmed length is exactly the maximum
\* was accepted and sent upstream
C4_Witness ==
    /\ lastResp.cause = "forwarded"
    /\ lastResp.text.type = "string"
    /\ TextLen(lastResp.text.str) > MAX_INPUT_LENGTH
    /\ TrimmedLen(lastResp.text) = MAX_INPUT_LENGTH
    /\ awaiting = 1

\* C5: the response to a failed upstream call is 429 'System busy' when the
\* thrown error's status is 429 and 500 'Failed to clarify text' otherwise;
\* nothing else of the error reaches the response.
C5_SanitizedFailure ==
    lastResp.cause = "upstream-failed" =>
        /\ lastResp.thrown.status = 429 =>
              lastResp.status = 429 /\ lastResp.error = SERVER_BUSY_MSG
        /\ lastResp.thrown.status # 429 =>
              lastResp.status = 500 /\ lastResp.error = FAILED_MSG
        /\ lastResp.clarification = <<>>

\* an upstream failure without status whose message names an internal host
C5_Witness ==
    /\ lastResp.cause = "upstream-failed"
    /\ lastResp.thrown = [status |-> 0, message |-> "connect ECONNREFUSED 10.0.0.7"]
    /\ lastResp.status = 500

\* the responses sent by a route handler or by the 404 handler
RouteCauses == {"limited", "invalid", "ok", "upstream-failed", "root", "notfound"}
\* every response
SentCauses == RouteCauses \cup {"preflight", "bad-body"}
NoStoreCauses == {"invalid", "ok", "upstream-failed"}

FiveHeaders ==
    { "Cache-Control: no-store", "X-Content-Type-Options: nosniff", "X-Frame-Options: DENY",
      "Referrer-Policy: strict-origin-when-cross-origin",
      "Strict-Transport-Security: max-age=31536000; includeSubDomains" }

\* C13 as stated: every response carries no-store and the four hardening headers.
C13_Original ==
    lastResp.cause \in SentCauses => FiveHeaders \subseteq lastResp.headers

\* C13: every response of a route handler or of the 404 handler carries the
\* four hardening headers; Cache-Control: no-store is carried exactly by the
\* responses of POST /api/clarify sent after the rate check (200, 400,
\* upstream 429/500); a response sent before the header middleware (CORS
\* pre-flight, body-parser error) lacks some hardening header.
C13_Headers ==
    /\ lastResp.cause \in RouteCauses =>
          (FiveHeaders \ {"Cache-Control: no-store"}) \subseteq lastResp.headers
    /\ lastResp.cause \in SentCauses \ RouteCauses =>
          ~((FiveHeaders \ {"Cache-Control: no-store"}) \subseteq lastResp.headers)
    /\ lastResp.cause \in SentCauses =>
          ("Cache-Control: no-store" \in lastResp.headers <=> lastResp.cause \in NoStoreCauses)

\* a validation error sent with all five headers
C13_Witness ==
    /\ lastResp.cause = "invalid"
    /\ lastResp.status = 400
    /\ lastResp.headers = FiveHeaders

\* C14 as stated: two 429 responses in a row have the same body, whichever
\* of the local limiter and the upstream provider caused each.
C14_Original ==
    [][ (lastResp.status = 429 /\ lastResp'.status = 429)
            => lastResp'.error = lastResp.error ]_vars

\* C14: both kinds of 429 carry a fixed string, but not the same one: the
\* local limiter answers 'Too many requests...' with Retry-After, an
\* upstream 429 is answered 'System busy...' without Retry-After.
C14_TwoBusyBodies ==
    lastResp.status = 429 =>
        /\ lastResp.cause \in {"limited", "upstream-failed"}
        /\ lastResp.cause = "limited" =>
              /\ lastResp.error = "Too many requests. Please wait a moment and try again."
              /\ lastResp.retryAfter # <<>>
        /\ lastResp.cause = "upstream-failed" =>
              /\ lastResp.error = "System busy. Please try again in a moment."
              /\ lastResp.retryAfter = <<>>

\* an upstream 429 answered while the heavy client is over its ceiling
C14_Witness ==
    /\ lastResp.cause = "upstream-failed"
    /\ lastResp.status = 429
    /\ win["ip1"].seen > RATE_MAX_REQS

\* whole seconds from t until the window of entry e resets
SecondsLeft(e, t) == (e.resetAt - t) \div 1000

\* C15 as stated: Retry-After is the number of seconds until the client's
\* window resets.
C15_Original ==
    [][ \A ip \in Ips :
          (win'[ip] # win[ip] /\ lastResp'.status = 429) =>
              lastResp'.retryAfter = DecStr(SecondsLeft(rateLimitMap'[ip], now)) ]_vars

\* C15: Retry-After on a locally rate-limited response is always the window
\* length in seconds, "60", which is at least the seconds left in the window.
C15_RetryAfterIsWindow ==
    [][ \A ip \in Ips :
          (win'[ip] # win[ip] /\ lastResp'.status = 429) =>
              /\ lastResp'.retryAfter = <<6, 0>>
              /\ SecondsLeft(rateLimitMap'[ip], now) <= 60
              /\ SecondsLeft(rateLimitMap'[ip], now) >= 0 ]_vars

\* a request refused part-way through its window
C15_Witness ==
    /\ lastResp.cause = "limited"
    /\ lastResp.retryAfter = <<6, 0>>
    /\ now > 0 /\ now < rateLimitMap["ip1"].resetAt
    /\ SecondsLeft(rateLimitMap["ip1"], now) < 60
    /\ rateLimitMap["ip1"].count > RATE_MAX_REQS
    /\ rateLimitMap["ip2"] = NoEntry

\* C16: an entry's count is the number of requests seen from its key since
\* its window opened; a request inside the window adds one to the count and
\* leaves resetAt alone, admitted or refused; a request at or after resetAt
\* (or with no entry) is admitted and opens a window with count 1.
C16_WindowIntegrity ==
    [][ \A ip \in Ips :
          LET e == rateLimitMap[ip]
              f == rateLimitMap'[ip] IN
          /\ f # NoEntry => f.count = win'[ip].seen
          /\ win'[ip] # win[ip] =>
               IF e # NoEntry /\ now < e.resetAt
               THEN f.resetAt = e.resetAt /\ f.count = e.count + 1
               ELSE /\ f = [count |-> 1, resetAt |-> now + RATE_WINDOW_MS]
                    /\ lastResp'.status # 429 ]_vars

\* the count has gone past the ceiling with the window still open
C16_Witness ==
    /\ rateLimitMap["ip1"].count = RATE_MAX_REQS + 1
    /\ win["ip1"].seen = RATE_MAX_REQS + 1
    /\ now < rateLimitMap["ip1"].resetAt
    /\ now >= RATE_WINDOW_MS

\* C18: a sweep deletes the entries with now >= resetAt and no other; and
\* every request gets the verdict of a limiter whose map is never swept.
C18_SweepTransparent ==
    [][ /\ nextSweep' # nextSweep =>
             \A ip \in Ips :
                rateLimitMap'[ip] = IF now >= rateLimitMap[ip].resetAt
                                    THEN NoEntry ELSE rateLimitMap[ip]
        /\ \A ip \in Ips :
             win'[ip] # win[ip] =>
                (lastResp'.status = 429 <=> win'[ip].seen > RATE_MAX_REQS) ]_vars

\* after a sweep that removed one client's expired entry and kept the other's
\* open one, the other client was refused
C18_Witness ==
    /\ nextSweep > SWEEP_MS
    /\ rateLimitMap["ip2"] = NoEntry /\ win["ip2"].seen > 0
    /\ rateLimitMap["ip1"].count = RATE_MAX_REQS + 1
    /\ now < rateLimitMap["ip1"].resetAt
    /\ lastResp.status = 429 /\ lastResp.cause = "limited"

====
